---------------------------- MODULE Spec2Model ----------------------------
(***************************************************************************)
(* Model of the WhatsApp / Gemini webhook relay in src/app.js.             *)
(*                                                                         *)
(* src/app.js holds two variants of the same server: the synchronous-file  *)
(* variant (lines 1-420) and the promise-file variant (lines 421-776).     *)
(* The variable "variant" (1 or 2) says which of them is running.          *)
(*                                                                         *)
(* A JavaScript string is modelled as the sequence of its characters,      *)
(* each character a one-character TLA+ string.                             *)
(***************************************************************************)
EXTENDS Integers, Sequences, FiniteSets, TLC

(***************************************************************************)
(* Bounds of the model.                                                    *)
(***************************************************************************)
\* how many webhook invocations may be in flight at once
MaxInFlight == 2
\* how many webhook events are received in one behaviour
MaxEvents == 2
\* how many pieces (letter, space, marker, newline) a text given to
\* splitMessage on its own is made of, at most
MaxTextPieces == 7

(***************************************************************************)
(* Program constants.                                                      *)
(***************************************************************************)
\* splitMessage(text, maxLines = 3, maxCharsPerLine = 100)
DefaultMaxLines == 3
DefaultMaxCharsPerLine == 100
\* res.status(200) / res.status(400) / res.status(500)
StatusOk == 200
StatusBadRequest == 400
StatusServerError == 500

(***************************************************************************)
(* Strings.                                                                *)
(***************************************************************************)
\* the line-break marker of splitMessage: text.split('\\n') splits on the
\* two characters backslash, n
Marker == <<"\\", "n">>
\* the separator of currentChunk.join('\n'): one newline character
Newline == <<"\n">>
Space == <<" ">>
\* the characters String.prototype.trim removes that the model's texts use
WhiteSpace == {" ", "\n", "\t"}

\* /[a-zA-Z0-9]/
AlphaNumeric ==
  {"0","1","2","3","4","5","6","7","8","9",
   "a","b","c","d","e","f","g","h","i","j","k","l","m",
   "n","o","p","q","r","s","t","u","v","w","x","y","z",
   "A","B","C","D","E","F","G","H","I","J","K","L","M",
   "N","O","P","Q","R","S","T","U","V","W","X","Y","Z"}

\* s.startsWith(p, i), i a 1-based position
StartsAt(s, p, i) ==
  /\ i + Len(p) - 1 <= Len(s)
  /\ \A k \in 1..Len(p) : s[i + k - 1] = p[k]

\* String.prototype.split(sep) for a non-empty separator: the pieces between
\* the occurrences of sep, found left to right from position i on; the empty
\* string splits into one empty piece
RECURSIVE SplitFrom(_, _, _)
SplitFrom(s, sep, i) ==
  LET hits == {k \in i..Len(s) : StartsAt(s, sep, k)}
  IN IF hits = {} THEN <<SubSeq(s, i, Len(s))>>
     ELSE LET j == CHOOSE k \in hits : \A m \in hits : k <= m
          IN <<SubSeq(s, i, j - 1)>> \o SplitFrom(s, sep, j + Len(sep))

StrSplit(s, sep) == SplitFrom(s, sep, 1)

\* Array.prototype.join(sep) on an array of strings
RECURSIVE StrJoin(_, _)
StrJoin(parts, sep) ==
  IF Len(parts) = 0 THEN <<>>
  ELSE IF Len(parts) = 1 THEN parts[1]
  ELSE parts[1] \o sep \o StrJoin(Tail(parts), sep)

\* String.prototype.trim: the text between the first and the last character
\* that is not white space
Trim(s) ==
  LET keep == {k \in 1..Len(s) : s[k] \notin WhiteSpace}
  IN IF keep = {} THEN <<>>
     ELSE SubSeq(s, CHOOSE k \in keep : \A m \in keep : k <= m,
                    CHOOSE k \in keep : \A m \in keep : k >= m)

\* senderNumber.replace(/[^a-zA-Z0-9]/g, '_')
SafeSenderId(senderNumber) ==
  [k \in 1..Len(senderNumber) |->
     IF senderNumber[k] \in AlphaNumeric THEN senderNumber[k] ELSE "_"]

(***************************************************************************)
(* splitMessage (src/app.js 112-166, and again 515-566).                   *)
(* The loop state is the record [chunks, currentChunk, currentLineCount];  *)
(* the inner loop adds [currentLine, currentLength].                       *)
(***************************************************************************)
\* if (currentLineCount >= maxLines) { chunks.push(...); reset }
\* currentChunk.push(line); currentLineCount++
PushLine(st, line, maxLines) ==
  LET closed == IF st.currentLineCount >= maxLines
                THEN [chunks |-> Append(st.chunks, StrJoin(st.currentChunk, Newline)),
                      currentChunk |-> <<>>,
                      currentLineCount |-> 0]
                ELSE st
  IN [chunks |-> closed.chunks,
      currentChunk |-> Append(closed.currentChunk, line),
      currentLineCount |-> closed.currentLineCount + 1]

\* WrapWords that does not count the separating space
RECURSIVE WrapWordsNoSpace(_, _, _, _, _, _)
WrapWordsNoSpace(words, st, currentLine, currentLength, maxLines, maxCharsPerLine) ==
  IF Len(words) = 0
  THEN IF Len(currentLine) > 0
       THEN PushLine(st, StrJoin(currentLine, Space), maxLines)
       ELSE st
  ELSE LET word == Head(words)
       IN IF currentLength + Len(word) <= maxCharsPerLine
          THEN WrapWordsNoSpace(Tail(words), st, Append(currentLine, word),
                                currentLength + Len(word), maxLines, maxCharsPerLine)
          ELSE WrapWordsNoSpace(Tail(words),
                                PushLine(st, StrJoin(currentLine, Space), maxLines),
                                <<word>>, Len(word), maxLines, maxCharsPerLine)

\* for (const word of words) { ... }, then the trailing
\* if (currentLine.length) { ... }
RECURSIVE WrapWords(_, _, _, _, _, _)
WrapWords(words, st, currentLine, currentLength, maxLines, maxCharsPerLine) ==
  IF Len(words) = 0
  THEN IF Len(currentLine) > 0
       THEN PushLine(st, StrJoin(currentLine, Space), maxLines)
       ELSE st
  ELSE LET word == Head(words)
       IN IF currentLength + Len(word) + 1 <= maxCharsPerLine
          THEN WrapWords(Tail(words), st, Append(currentLine, word),
                         currentLength + Len(word) + 1, maxLines, maxCharsPerLine)
          ELSE WrapWords(Tail(words),
                         PushLine(st, StrJoin(currentLine, Space), maxLines),
                         <<word>>, Len(word), maxLines, maxCharsPerLine)

\* for (const paragraph of paragraphs) { ... }
RECURSIVE SplitParagraphs(_, _, _, _)
SplitParagraphs(paragraphs, st, maxLines, maxCharsPerLine) ==
  IF Len(paragraphs) = 0 THEN st
  ELSE LET paragraph == Head(paragraphs)
           next == IF Len(paragraph) > maxCharsPerLine
                   THEN WrapWords(StrSplit(paragraph, Space), st, <<>>, 0,
                                  maxLines, maxCharsPerLine)
                   ELSE PushLine(st, paragraph, maxLines)
       IN SplitParagraphs(Tail(paragraphs), next, maxLines, maxCharsPerLine)

splitMessage(text, maxLines, maxCharsPerLine) ==
  LET st == SplitParagraphs(StrSplit(text, Marker),
                            [chunks |-> <<>>, currentChunk |-> <<>>,
                             currentLineCount |-> 0],
                            maxLines, maxCharsPerLine)
  IN IF Len(st.currentChunk) > 0
     THEN Append(st.chunks, StrJoin(st.currentChunk, Newline))
     ELSE st.chunks


(***************************************************************************)
(* The fixed reply strings of getGeminiResponse.                           *)
(***************************************************************************)
\* src/app.js 177 and 571
FALLBACK_NO_KEY ==
  <<"S","o","r","r","y",","," ","I","'","m"," ","h","a","v","i","n","g"," ",
    "t","r","o","u","b","l","e"," ","c","o","n","n","e","c","t","i","n","g",
    " ","t","o"," ","m","y"," ","b","r","a","i","n"," ","r","i","g","h","t",
    " ","n","o","w"," ","(","A","P","I"," ","k","e","y"," ","i","s","s","u",
    "e",")",".">>
\* src/app.js 236
FALLBACK_UNRECOGNIZED ==
  <<"I"," ","r","e","c","e","i","v","e","d"," ","a","n"," ","u","n","e","x",
    "p","e","c","t","e","d"," ","r","e","s","p","o","n","s","e"," ","f","o",
    "r","m","a","t"," ","f","r","o","m"," ","G","e","m","i","n","i","."," ",
    "P","l","e","a","s","e"," ","t","r","y"," ","a","g","a","i","n",".">>
\* src/app.js 239 and 610
FALLBACK_ERROR ==
  <<"I","'","m"," ","h","a","v","i","n","g"," ","t","r","o","u","b","l","e",
    " ","p","r","o","c","e","s","s","i","n","g"," ","t","h","a","t"," ","r",
    "e","q","u","e","s","t"," ","w","i","t","h"," ","m","y"," ","A","I"," ",
    "b","r","a","i","n","."," ","P","l","e","a","s","e"," ","t","r","y"," ",
    "a","g","a","i","n"," ","l","a","t","e","r",".">>
\* src/app.js 589 and 603
FALLBACK_UNUSUAL ==
  <<"I"," ","r","e","c","e","i","v","e","d"," ","a","n"," ","u","n","u","s",
    "u","a","l"," ","r","e","s","p","o","n","s","e"," ","s","t","r","u","c",
    "t","u","r","e"," ","f","r","o","m"," ","G","e","m","i","n","i","."," ",
    "P","l","e","a","s","e"," ","t","r","y"," ","a","g","a","i","n",".">>
\* src/app.js 592 and 606
FALLBACK_EMPTY ==
  <<"I"," ","r","e","c","e","i","v","e","d"," ","a","n"," ","e","m","p","t",
    "y"," ","o","r"," ","u","n","e","x","p","e","c","t","e","d"," ","r","e",
    "s","p","o","n","s","e"," ","f","r","o","m"," ","G","e","m","i","n","i",
    "."," ","P","l","e","a","s","e"," ","t","r","y"," ","a","g","a","i","n",
    ".">>

(***************************************************************************)
(* The result of the completion call (chat.sendMessage /                   *)
(* model.generateContent).  It throws, or returns an object; the object's  *)
(* three known shapes are each                                             *)
(*   "absent"  the path to the parts array is missing,                     *)
(*   "empty"   the parts array is there and empty,                         *)
(*   "notext"  parts[0] is there and has no text,                          *)
(*   "text"    parts[0].text (or response.text) is the string s.           *)
(* nested = response.response.candidates[0].content.parts,                 *)
(* text   = response.text,                                                 *)
(* cand   = response.candidates[0].content.parts.                          *)
(***************************************************************************)
NoShape == [st |-> "absent", s |-> <<>>]
TextShape(t) == [st |-> "text", s |-> t]
Throws == [kind |-> "throw", nested |-> NoShape, text |-> NoShape, cand |-> NoShape]
Returns(n, t, c) == [kind |-> "result", nested |-> n, text |-> t, cand |-> c]

\* a shape whose guard in the if-chain is true and whose
\* parts[0].text.trim() then throws a TypeError
TrimThrows(shape) == shape.st \in {"empty", "notext"}

\* getGeminiResponse of the first variant, after the await (src/app.js 219-240)
Extract1(result) ==
  IF result.kind = "throw" THEN FALLBACK_ERROR
  ELSE IF result.nested.st \in {"notext", "text"}
       THEN IF TrimThrows(result.nested) THEN FALLBACK_ERROR
            ELSE Trim(result.nested.s)
  ELSE IF result.text.st = "text" /\ result.text.s # <<>>
       THEN Trim(result.text.s)
  ELSE IF result.cand.st # "absent"
       THEN IF TrimThrows(result.cand) THEN FALLBACK_ERROR
            ELSE Trim(result.cand.s)
  ELSE FALLBACK_UNRECOGNIZED

\* getGeminiResponse of the second variant, after the await
\* (src/app.js 580-592 and 594-606, the same chain in both branches)
Extract2(result) ==
  IF result.kind = "throw" THEN FALLBACK_ERROR
  ELSE IF result.text.st = "text" /\ result.text.s # <<>>
       THEN Trim(result.text.s)
  ELSE IF result.cand.st # "absent"
       THEN IF TrimThrows(result.cand) THEN FALLBACK_UNUSUAL
            ELSE Trim(result.cand.s)
  ELSE FALLBACK_EMPTY

\* getGeminiResponse: keyConfigured is !!GEMINI_API_KEY; result is what the
\* completion call does when it is made
getGeminiResponse(v, keyConfigured, result) ==
  IF ~keyConfigured THEN FALLBACK_NO_KEY
  ELSE IF v = 1 THEN Extract1(result) ELSE Extract2(result)

\* CallsCompletion of a generator that makes the call before it looks at the
\* key
CallsCompletionFirst(keyConfigured) == TRUE

\* whether getGeminiResponse makes the completion call
CallsCompletion(keyConfigured) == keyConfigured

(***************************************************************************)
(* Conversation records.                                                   *)
(***************************************************************************)
\* { role: 'user', parts: [{ text: t }] } (variant 1, src/app.js 393-394)
\* { role: 'user', parts: [t] }           (variant 2, src/app.js 748-749)
Turn(v, role, t) ==
  [role |-> role, parts |-> IF v = 1 THEN <<[text |-> t]>> ELSE <<t>>]

\* AppendTurns that skips a message whose user turn is already the last one
AppendTurnsDedup(v, history, userText, reply) ==
  IF Len(history) >= 2 /\ history[Len(history) - 1] = Turn(v, "user", userText)
  THEN history
  ELSE history \o <<Turn(v, "user", userText), Turn(v, "model", reply)>>

\* AppendTurns that pushes the model turn before the user turn
AppendTurnsModelFirst(v, history, userText, reply) ==
  history \o <<Turn(v, "model", reply), Turn(v, "user", userText)>>

\* conversationHistory.push(user turn); conversationHistory.push(model turn)
AppendTurns(v, history, userText, reply) ==
  history \o <<Turn(v, "user", userText), Turn(v, "model", reply)>>

\* The characters JSON.stringify writes with a backslash in front, and what
\* it writes after the backslash
EscapedChars == {"\"", "\\", "\n", "\t"}
EscapeCode(c) ==
  IF c = "\n" THEN "n" ELSE IF c = "\t" THEN "t" ELSE c
\* EscapeChar of a parser that takes the character after a backslash as it
\* is
EscapeCharLiteral(c) == c

\* the character JSON.parse reads for a backslash followed by c
EscapeChar(c) ==
  IF c = "n" THEN "\n" ELSE IF c = "t" THEN "\t" ELSE c

\* the body of the JSON string literal that JSON.stringify writes for the
\* string t, from position i on
RECURSIVE EscapeFrom(_, _)
EscapeFrom(t, i) ==
  LET hits == {k \in i..Len(t) : t[k] \in EscapedChars}
  IN IF hits = {} THEN SubSeq(t, i, Len(t))
     ELSE LET j == CHOOSE k \in hits : \A m \in hits : k <= m
          IN SubSeq(t, i, j - 1) \o <<"\\", EscapeCode(t[j])>> \o EscapeFrom(t, j + 1)

\* the string JSON.parse reads from the body e of a string literal, from
\* position i on
RECURSIVE UnescapeFrom(_, _)
UnescapeFrom(e, i) ==
  LET hits == {k \in i..Len(e) - 1 : e[k] = "\\"}
  IN IF hits = {} THEN SubSeq(e, i, Len(e))
     ELSE LET j == CHOOSE k \in hits : \A m \in hits : k <= m
          IN SubSeq(e, i, j - 1) \o <<EscapeChar(e[j + 1])>> \o UnescapeFrom(e, j + 2)

\* JSON.stringify(history, null, 2): the turns one by one, their strings as
\* string literals; v tells the shape of the parts (see Turn)
JSONstringify(v, history) ==
  [n \in 1..Len(history) |->
     [role |-> history[n].role,
      parts |-> [m \in 1..Len(history[n].parts) |->
                   IF v = 1
                   THEN [text |-> EscapeFrom(history[n].parts[m].text, 1)]
                   ELSE EscapeFrom(history[n].parts[m], 1)]]]

\* JSON.parse(data) of such a text
JSONparse(v, data) ==
  [n \in 1..Len(data) |->
     [role |-> data[n].role,
      parts |-> [m \in 1..Len(data[n].parts) |->
                   IF v = 1
                   THEN [text |-> UnescapeFrom(data[n].parts[m].text, 1)]
                   ELSE UnescapeFrom(data[n].parts[m], 1)]]]

\* the test of the parsed array: 'role' in item && 'parts' in item in the
\* first variant, item.role && item.parts in the second, where an empty
\* role is falsy and an array of parts is truthy even when empty
ValidHistory(v, history) ==
  v = 2 => \A n \in 1..Len(history) : history[n].role # ""

\* The file conversations/<key>.json:
\*   "absent"  no such file (ENOENT),
\*   "syntax"  a file that is not JSON,
\*   "format"  JSON that is not an array of objects with role and parts,
\*   "json"    value is the text JSON.stringify wrote for an array of turns.
NoFile == [kind |-> "absent", value |-> <<>>]
CorruptFiles == {[kind |-> "syntax", value |-> <<>>], [kind |-> "format", value |-> <<>>]}
JsonFile(v, history) == [kind |-> "json", value |-> JSONstringify(v, history)]

\* loadConversationHistory that returns what it parsed of a malformed record
\* (a placeholder turn) instead of the empty conversation
loadConversationHistoryKeepsMalformed(v, file, readOk) ==
  IF file.kind = "json" /\ readOk
  THEN LET history == JSONparse(v, file.value)
       IN IF ValidHistory(v, history) THEN history ELSE <<>>
  ELSE IF file.kind = "format" /\ readOk THEN <<Turn(v, "", <<>>)>>
  ELSE <<>>

\* loadConversationHistory (src/app.js 66-88 and 487-504); readOk is FALSE
\* when fs.readFileSync / fs.readFile fails on an existing file
loadConversationHistory(v, file, readOk) ==
  IF file.kind = "json" /\ readOk
  THEN LET history == JSONparse(v, file.value)
       IN IF ValidHistory(v, history) THEN history ELSE <<>>
  ELSE <<>>

\* saveConversationHistory (src/app.js 95-102 and 506-513): the file after
\* the call; writeOk is FALSE when fs.writeFileSync / fs.writeFile throws
saveConversationHistory(v, file, history, writeOk) ==
  IF writeOk THEN JsonFile(v, history) ELSE file

(***************************************************************************)
(* Inbound events (req.body).                                              *)
(*   kind          "upsert": event === 'messages.upsert' with              *)
(*                 data.messages; "nomessages": that event without         *)
(*                 data.messages; "other": another event; "none": no event *)
(*   fromMe        messages.key.fromMe is truthy                           *)
(*   sender        messages.key.remoteJid: "absent" (no key, or a falsy    *)
(*                 remoteJid), "string", or "nonstring" (a truthy value    *)
(*                 that is no string, such as a number)                    *)
(*   message       messages.message: "absent", an "object", or a           *)
(*                 "primitive" (a truthy value that is no object)          *)
(*   conversation  message.conversation: "absent" or the string s          *)
(*   ext           message.extendedTextMessage.text: "absent" or s         *)
(*   stub          messages.messageStubType is truthy                      *)
(***************************************************************************)
NoField == [st |-> "absent", s |-> <<>>]
StringField(t) == [st |-> "string", s |-> t]
NonStringField == [st |-> "nonstring", s |-> <<>>]

\* the sender identifiers and message texts that events carry
Sender1 == <<"1", "@", "s">>
Sender2 == <<"2", "@", "s">>
Senders == {Sender1, Sender2}
DirectText == <<"h", "i">>
ExtendedText == <<"y", "o">>

NonMessageEvents ==
  {[kind |-> k, fromMe |-> FALSE, sender |-> NoField, message |-> "absent",
    conversation |-> NoField, ext |-> NoField, stub |-> FALSE] :
   k \in {"nomessages", "other", "none"}}

MessageEvents ==
  {e \in [kind : {"upsert"},
          fromMe : BOOLEAN,
          sender : {NoField, NonStringField} \cup {StringField(x) : x \in Senders},
          message : {"absent", "object", "primitive"},
          conversation : {NoField, StringField(<<>>), StringField(DirectText)},
          ext : {NoField, StringField(ExtendedText)},
          stub : BOOLEAN] :
     /\ e.message # "object" => (e.conversation = NoField /\ e.ext = NoField)
     \* the second sender and self-sent messages carry direct text only
     /\ (e.sender = StringField(Sender2) \/ e.fromMe) =>
          (e.ext = NoField /\ e.conversation # StringField(<<>>))}

Events == NonMessageEvents \cup MessageEvents

\* lines 343-355: the text the first variant extracts; a falsy conversation
\* falls through to extendedTextMessage.text
ExtractText1(ev) ==
  IF ev.message = "absent" THEN NoField
  ELSE IF ev.conversation.st = "string" /\ ev.conversation.s # <<>>
       THEN ev.conversation
  ELSE IF ev.ext.st = "string" /\ ev.ext.s # <<>> THEN ev.ext
  ELSE NoField

\* lines 708-720: the text the second variant extracts; 'conversation' in
\* msgContentObj takes the conversation field whenever it is present
ExtractText2(ev) ==
  IF ev.message = "absent" THEN NoField
  ELSE IF ev.conversation.st = "string" THEN ev.conversation
  ELSE IF ev.ext.st = "string" /\ ev.ext.s # <<>> THEN ev.ext
  ELSE NoField

ExtractText(v, ev) == IF v = 1 THEN ExtractText1(ev) ELSE ExtractText2(ev)

\* messageType === 'text' && incomingMessageText
HasText(v, ev) == ExtractText(v, ev).st = "string" /\ ExtractText(v, ev).s # <<>>

\* Classify1 with the stub check passed over for a message that has text
Classify1StubAfterText(ev) ==
  IF ev.kind # "upsert" THEN "ack"
  ELSE IF ev.fromMe THEN "ack"
  ELSE IF ev.stub /\ ~HasText(1, ev) THEN "ack"
  ELSE IF ev.sender.st = "absent" THEN "client"
  ELSE IF ev.sender.st = "nonstring" THEN "throw"
  ELSE IF HasText(1, ev) THEN "pipeline"
  ELSE "ack"

\* The synchronous head of the first handler (src/app.js 333-408), up to
\* the point where it answers or enters the pipeline:
\*   "ack"       res.status(200), nothing else done
\*   "client"    res.status(400) 'Incomplete sender data'
\*   "throw"     a TypeError reaches the catch: res.status(500)
\*   "pipeline"  the text branch is entered
Classify1(ev) ==
  IF ev.kind # "upsert" THEN "ack"
  ELSE IF ev.fromMe THEN "ack"
  ELSE IF ev.stub THEN "ack"
  ELSE IF ev.sender.st = "absent" THEN "client"
  ELSE IF ev.sender.st = "nonstring" THEN "throw"
  ELSE IF HasText(1, ev) THEN "pipeline"
  ELSE "ack"

\* The same for the second handler (src/app.js 692-761): the sender check
\* and the replace precede the text extraction and the stub check, and
\* 'conversation' in msgContentObj throws for a primitive message
Classify2(ev) ==
  IF ev.kind # "upsert" THEN "ack"
  ELSE IF ev.fromMe THEN "ack"
  ELSE IF ev.sender.st = "absent" THEN "client"
  ELSE IF ev.sender.st = "nonstring" THEN "throw"
  ELSE IF ev.message = "primitive" THEN "throw"
  ELSE IF ev.stub THEN "ack"
  ELSE IF HasText(2, ev) THEN "pipeline"
  ELSE "ack"

Classify(v, ev) == IF v = 1 THEN Classify1(ev) ELSE Classify2(ev)

\* the status of an answer given by the head of the handler
HeadStatus(class) ==
  IF class = "client" THEN StatusBadRequest
  ELSE IF class = "throw" THEN StatusServerError
  ELSE StatusOk

(***************************************************************************)
(* What the completion call may return in the model.                       *)
(***************************************************************************)
\* seven paragraphs: three chunks of 3, 3 and 1 lines
LongReply ==
  <<"a">> \o Marker \o <<"b">> \o Marker \o <<"c">> \o Marker \o <<"d">>
  \o Marker \o <<"e">> \o Marker \o <<"f">> \o Marker \o <<"g">>
\* white space only: trims to the empty string
BlankReply == <<" ">>

CompletionResults ==
  {Throws,
   Returns(NoShape, TextShape(LongReply), NoShape),
   Returns(NoShape, TextShape(BlankReply), NoShape)}

(***************************************************************************)
(* State.                                                                  *)
(***************************************************************************)
VARIABLES
  variant,        \* which of the two servers of src/app.js runs: 1 or 2
  keyConfigured,  \* GEMINI_API_KEY is set
  store,          \* the file of each storage key in conversations/
  req,            \* the webhook invocations, by slot
  received,       \* how many events have been received
  saves,          \* history: per key, how many saves have succeeded
  delivered,      \* history: per key, how many replies were sent in full
  call            \* the last call of a function made on its own: its
                  \* arguments and what it returned

vars == <<variant, keyConfigured, store, req, received, saves, delivered, call>>

Slots == 1..MaxInFlight
Keys == {SafeSenderId(x) : x \in Senders}

\* one recorded step of an invocation: a load (idx: 1 when the record on
\* file was malformed, ok: the read succeeded), a generate (text: the prompt),
\* a send (idx: the chunk's index, ok: its result), a delay (idx: the chunk
\* it follows) or a save (ok: the write succeeded)
Op(op, idx, ok, text) == [op |-> op, idx |-> idx, ok |-> ok, text |-> text]

\* pc: "idle", "loading", "generating", "sending", "delaying", "saving", or
\* "done" once res.status(...).json(...) has been called with status.
\* ops, calls and ver are history: the steps taken, the completion calls
\* made, and saves[key] as it was at the load.
\* no function has been called on its own
NoCall == [fn |-> "none"]

IdleReq ==
  [pc |-> "idle", ev |-> CHOOSE e \in NonMessageEvents : e.kind = "none",
   status |-> 0, sender |-> <<>>, text |-> <<>>, history |-> <<>>,
   reply |-> <<>>, chunks |-> <<>>, i |-> 0, ops |-> <<>>, calls |-> 0,
   ver |-> 0]

Init ==
  /\ variant \in {1, 2}
  /\ keyConfigured \in BOOLEAN
  /\ store \in [Keys -> {NoFile} \cup CorruptFiles]
  /\ store[SafeSenderId(Sender2)] = NoFile
  /\ req = [r \in Slots |-> IdleReq]
  /\ received = 0
  /\ saves = [k \in Keys |-> 0]
  /\ delivered = [k \in Keys |-> 0]
  /\ call = NoCall

\* An invocation that has answered is over: its record is dropped by the
\* next step, whichever it is, so the answer is visible in exactly the state
\* that follows the step that gave it.
Flush(rq) == [r \in Slots |-> IF rq[r].pc = "done" THEN IdleReq ELSE rq[r]]

\* slots are names only: a new invocation takes the lowest free one
LowestFree(r) ==
  /\ req[r].pc \in {"idle", "done"}
  /\ \A r2 \in Slots : r2 < r => req[r2].pc \notin {"idle", "done"}

\* the invocation's storage key
KeyOf(q) == SafeSenderId(q.sender)

\* reading a file that exists may fail; a missing file is ENOENT either way
ReadOutcomes(file) == IF file.kind = "absent" THEN {TRUE} ELSE BOOLEAN

\* the invocation after loadConversationHistory(safeSenderId) returned
Loaded(q, file, readOk) ==
  [q EXCEPT !.pc = "generating",
            !.history = loadConversationHistory(variant, file, readOk),
            !.ver = saves[KeyOf(q)],
            !.ops = Append(@, Op("load", IF file \in CorruptFiles THEN 1 ELSE 0,
                                 readOk, <<>>))]

\* A webhook event arrives and the handler runs to its first await or to its
\* answer.  The first variant loads the history synchronously before it
\* awaits getGeminiResponse; the second awaits the load.
Receive(r, ev) ==
  /\ LowestFree(r)
  /\ received < MaxEvents
  /\ received' = received + 1
  /\ LET class == Classify(variant, ev)
         started == [IdleReq EXCEPT !.ev = ev, !.sender = ev.sender.s,
                                    !.text = ExtractText(variant, ev).s]
     IN IF class # "pipeline"
        THEN req' = [Flush(req) EXCEPT ![r] = [IdleReq EXCEPT !.pc = "done", !.ev = ev,
                                                       !.status = HeadStatus(class)]]
        ELSE IF variant = 1
        THEN \E readOk \in ReadOutcomes(store[KeyOf(started)]) :
               req' = [Flush(req) EXCEPT ![r] = Loaded(started, store[KeyOf(started)], readOk)]
        ELSE req' = [Flush(req) EXCEPT ![r] = [started EXCEPT !.pc = "loading"]]
  /\ UNCHANGED <<variant, keyConfigured, store, saves, delivered, call>>

\* second variant: await loadConversationHistory(safeSenderId) returns
LoadReturn(r) ==
  /\ req[r].pc = "loading"
  /\ \E readOk \in ReadOutcomes(store[KeyOf(req[r])]) :
       req' = [Flush(req) EXCEPT ![r] = Loaded(req[r], store[KeyOf(req[r])], readOk)]
  /\ UNCHANGED <<variant, keyConfigured, store, received, saves, delivered, call>>

\* SavedHistory that appends to the conversation on file at the save instead
\* of the one loaded at the start
SavedHistoryMerged(q) ==
  AppendTurns(variant, loadConversationHistory(variant, store[KeyOf(q)], TRUE), q.text, q.reply)

\* conversationHistory.push(user); conversationHistory.push(model);
\* saveConversationHistory(safeSenderId, conversationHistory)
SavedHistory(q) == AppendTurns(variant, q.history, q.text, q.reply)

\* every chunk of the reply has been sent with success
SentInFull(q) ==
  Len(q.chunks) = Cardinality({n \in 1..Len(q.ops) : q.ops[n].op = "send" /\ q.ops[n].ok})

\* Saved that answers a failed write with the internal error
SavedReportsWriteFailure(q, writeOk) ==
  [q EXCEPT !.pc = "done",
            !.status = IF writeOk THEN StatusOk ELSE StatusServerError,
            !.ops = Append(@, Op("save", 0, writeOk, <<>>))]

\* Saved that writes the file once per pushed turn
SavedTwice(q, writeOk) ==
  [q EXCEPT !.pc = "done", !.status = StatusOk,
            !.ops = @ \o <<Op("save", 0, writeOk, <<>>), Op("save", 0, writeOk, <<>>)>>]

\* the invocation once saveConversationHistory has returned and
\* res.status(200).json({ status: 'success' }) is called
Saved(q, writeOk) ==
  [q EXCEPT !.pc = "done", !.status = StatusOk,
            !.ops = Append(@, Op("save", 0, writeOk, <<>>))]

\* saveConversationHistory(safeSenderId, conversationHistory) runs and the
\* handler answers
Finish(r, q) ==
  \E writeOk \in BOOLEAN :
    /\ store' = [store EXCEPT ![KeyOf(q)] =
                   saveConversationHistory(variant, @, SavedHistory(q), writeOk)]
    /\ req' = [Flush(req) EXCEPT ![r] = Saved(q, writeOk)]
    /\ saves' = [saves EXCEPT ![KeyOf(q)] = @ + (IF writeOk THEN 1 ELSE 0)]
    /\ delivered' = [delivered EXCEPT ![KeyOf(q)] = @ + (IF SentInFull(q) THEN 1 ELSE 0)]

\* AfterDelivery that saves only when at least one chunk was delivered
AfterDeliverySaveIfSent(r, q) ==
  IF \A n \in 1..Len(q.ops) : ~(q.ops[n].op = "send" /\ q.ops[n].ok)
  THEN /\ req' = [Flush(req) EXCEPT ![r] = [q EXCEPT !.pc = "done", !.status = StatusOk]]
       /\ UNCHANGED <<store, saves, delivered>>
  ELSE IF variant = 1
  THEN Finish(r, q)
  ELSE /\ req' = [Flush(req) EXCEPT ![r] = [q EXCEPT !.pc = "saving"]]
       /\ UNCHANGED <<store, saves, delivered>>

\* The loop over the chunks is left (or never entered).  The first variant
\* saves synchronously and answers; the second awaits the save.
AfterDelivery(r, q) ==
  IF variant = 1
  THEN Finish(r, q)
  ELSE /\ req' = [Flush(req) EXCEPT ![r] = [q EXCEPT !.pc = "saving"]]
       /\ UNCHANGED <<store, saves, delivered>>

\* GenerateReturn without the test of the reply: an empty reply is split and
\* delivered like any other
GenerateReturnAnyReply(r, result) ==
  /\ req[r].pc = "generating"
  /\ LET reply == getGeminiResponse(variant, keyConfigured, result)
         chunks == splitMessage(reply, DefaultMaxLines, DefaultMaxCharsPerLine)
         q == [req[r] EXCEPT !.reply = reply,
                 !.calls = @ + (IF CallsCompletion(keyConfigured) THEN 1 ELSE 0),
                 !.ops = Append(@, Op("generate", 0, TRUE, req[r].text))]
     IN IF Len(chunks) = 0
        THEN AfterDelivery(r, [q EXCEPT !.chunks = chunks])
        ELSE /\ req' = [Flush(req) EXCEPT ![r] = [q EXCEPT !.chunks = chunks, !.pc = "sending", !.i = 1]]
             /\ UNCHANGED <<store, saves, delivered>>
  /\ UNCHANGED <<variant, keyConfigured, received, call>>

\* await getGeminiResponse(...) returns geminiReply; an empty reply is
\* answered at once, any other is split and the first send is started
GenerateReturn(r, result) ==
  /\ req[r].pc = "generating"
  /\ LET reply == getGeminiResponse(variant, keyConfigured, result)
         chunks == splitMessage(reply, DefaultMaxLines, DefaultMaxCharsPerLine)
         q == [req[r] EXCEPT !.reply = reply,
                 !.calls = @ + (IF CallsCompletion(keyConfigured) THEN 1 ELSE 0),
                 !.ops = Append(@, Op("generate", 0, TRUE, req[r].text))]
     IN IF reply = <<>>
        THEN /\ req' = [Flush(req) EXCEPT ![r] = [q EXCEPT !.pc = "done", !.status = StatusOk]]
             /\ UNCHANGED <<store, saves, delivered>>
        ELSE IF Len(chunks) = 0
        THEN AfterDelivery(r, [q EXCEPT !.chunks = chunks])
        ELSE /\ req' = [Flush(req) EXCEPT ![r] = [q EXCEPT !.chunks = chunks, !.pc = "sending", !.i = 1]]
             /\ UNCHANGED <<store, saves, delivered>>
  /\ UNCHANGED <<variant, keyConfigured, received, call>>

\* AfterSend that waits after every successful send, the last included
AfterSendAlwaysDelays(i, n, success) ==
  IF ~success THEN "break" ELSE "delay"

\* AfterSend that goes on to the next chunk after a failed send
AfterSendIgnoresFailure(i, n, success) ==
  IF i < n THEN "delay" ELSE "end"

\* what the loop does once the send of chunk i (of n) returned success:
\* "break" on failure, "delay" before a further chunk, "end" after the last
AfterSend(i, n, success) ==
  IF ~success THEN "break"
  ELSE IF i < n THEN "delay"
  ELSE "end"

\* SendReturn that sends the same chunk again when the send failed
SendReturnRetries(r, success) ==
  /\ req[r].pc = "sending"
  /\ LET q == [req[r] EXCEPT
                 !.ops = Append(@, Op("send", req[r].i, success, <<>>))]
     IN IF ~success
        THEN /\ req' = [Flush(req) EXCEPT ![r] = q]
             /\ UNCHANGED <<store, saves, delivered>>
        ELSE IF AfterSend(q.i, Len(q.chunks), success) = "delay"
        THEN /\ req' = [Flush(req) EXCEPT ![r] = [q EXCEPT !.pc = "delaying"]]
             /\ UNCHANGED <<store, saves, delivered>>
        ELSE AfterDelivery(r, q)
  /\ UNCHANGED <<variant, keyConfigured, received, call>>

\* await sendWhatsappMessage(senderNumber, messageChunks[i], 'text') returns
SendReturn(r, success) ==
  /\ req[r].pc = "sending"
  /\ LET q == [req[r] EXCEPT
                 !.ops = Append(@, Op("send", req[r].i, success, <<>>))]
     IN IF AfterSend(q.i, Len(q.chunks), success) = "delay"
        THEN /\ req' = [Flush(req) EXCEPT ![r] = [q EXCEPT !.pc = "delaying"]]
             /\ UNCHANGED <<store, saves, delivered>>
        ELSE AfterDelivery(r, q)
  /\ UNCHANGED <<variant, keyConfigured, received, call>>

\* DelayReturn that advances the loop index by two
DelayReturnSkipsChunk(r) ==
  /\ req[r].pc = "delaying"
  /\ req[r].i + 2 <= Len(req[r].chunks)
  /\ req' = [Flush(req) EXCEPT ![r] =
               [req[r] EXCEPT !.pc = "sending", !.i = @ + 2,
                              !.ops = Append(@, Op("delay", req[r].i, TRUE, <<>>))]]
  /\ UNCHANGED <<variant, keyConfigured, store, received, saves, delivered, call>>

\* the inter-chunk setTimeout fires; i++ and the next send is started
DelayReturn(r) ==
  /\ req[r].pc = "delaying"
  /\ req' = [Flush(req) EXCEPT ![r] =
               [req[r] EXCEPT !.pc = "sending", !.i = @ + 1,
                              !.ops = Append(@, Op("delay", req[r].i, TRUE, <<>>))]]
  /\ UNCHANGED <<variant, keyConfigured, store, received, saves, delivered, call>>

\* second variant: await saveConversationHistory(...) returns, then
\* res.status(200)
SaveReturn(r) ==
  /\ req[r].pc = "saving"
  /\ Finish(r, req[r])
  /\ UNCHANGED <<variant, keyConfigured, received, call>>

Next ==
  \/ \E r \in Slots, ev \in Events : Receive(r, ev)
  \/ \E r \in Slots : LoadReturn(r)
  \/ \E r \in Slots, result \in CompletionResults : GenerateReturn(r, result)
  \/ \E r \in Slots, success \in BOOLEAN : SendReturn(r, success)
  \/ \E r \in Slots : DelayReturn(r)
  \/ \E r \in Slots : SaveReturn(r)

Spec == Init /\ [][Next]_vars

\* The same server when events arrive one after another: an event is
\* received only when no invocation is in flight.
InFlight == {r \in Slots : req[r].pc \notin {"idle", "done"}}

SeqReceive(r, ev) == InFlight = {} /\ Receive(r, ev)

SeqNext ==
  \/ \E r \in Slots, ev \in Events : SeqReceive(r, ev)
  \/ \E r \in Slots : LoadReturn(r)
  \/ \E r \in Slots, result \in CompletionResults : GenerateReturn(r, result)
  \/ \E r \in Slots, success \in BOOLEAN : SendReturn(r, success)
  \/ \E r \in Slots : DelayReturn(r)
  \/ \E r \in Slots : SaveReturn(r)

SeqSpec == Init /\ [][SeqNext]_vars

(***************************************************************************)
(* getGeminiResponse called on its own.                                    *)
(***************************************************************************)
\* the state before any event, with the store given
Quiet(files) ==
  /\ variant \in {1, 2}
  /\ keyConfigured \in BOOLEAN
  /\ store = files
  /\ req = [r \in Slots |-> IdleReq]
  /\ received = 0
  /\ saves = [k \in Keys |-> 0]
  /\ delivered = [k \in Keys |-> 0]
  /\ call = NoCall

\* a parts array that is empty, and one whose first part has no text
EmptyShape == [st |-> "empty", s |-> <<>>]
NoTextShape == [st |-> "notext", s |-> <<>>]

\* what the completion call may do: throw, or return an object with any
\* combination of the three shapes
GenResults ==
  {Throws} \cup
  {Returns(n, t, c) :
     n \in {NoShape, EmptyShape, NoTextShape, TextShape(<<>>),
            TextShape(<<" ", "n", "1", " ">>)},
     t \in {NoShape, TextShape(<<>>), TextShape(<<" ">>),
            TextShape(<<"t", "1", " ">>)},
     c \in {NoShape, EmptyShape, NoTextShape, TextShape(<<>>),
            TextShape(<<"c", "1">>)}}

GenInit == Quiet([k \in Keys |-> NoFile])

\* getGeminiResponse(messageText, conversationHistory) runs to its return
Generate(result) ==
  /\ call' = [fn |-> "generate", result |-> result,
              out |-> getGeminiResponse(variant, keyConfigured, result),
              calls |-> IF CallsCompletion(keyConfigured) THEN 1 ELSE 0]
  /\ UNCHANGED <<variant, keyConfigured, store, req, received, saves, delivered>>

GenNext == \E result \in GenResults : Generate(result)

GenSpec == GenInit /\ [][GenNext]_vars

(***************************************************************************)
(* loadConversationHistory and saveConversationHistory called on their     *)
(* own.                                                                    *)
(***************************************************************************)
\* texts with the characters that JSON.stringify escapes: the marker's
\* backslash, a double quote, a newline
StoreTexts ==
  {<<"h", "i">>, <<"a">> \o Marker \o <<"b">>, <<"\"", "\n", "t">>}

\* the conversations handed to save: the empty one, a user turn and a model
\* turn, two such pairs, and a turn whose role is empty
StoreHistories(v) ==
  {<<>>, <<Turn(v, "", <<"h", "i">>)>>}
  \cup {AppendTurns(v, <<>>, t, u) : t, u \in StoreTexts}
  \cup {AppendTurns(v, AppendTurns(v, <<>>, t, u), u, t) : t, u \in StoreTexts}

StoreInit ==
  \E files \in [Keys -> {NoFile} \cup CorruptFiles] : Quiet(files)

\* per key, whether a save has written the file and the conversation that
\* the last such save was given
LastSaved ==
  IF call.fn \in {"save", "load"} THEN call.saved
  ELSE [k \in Keys |-> [some |-> FALSE, history |-> <<>>]]

\* saveConversationHistory(userId, history) runs to its return
Save(k, history, writeOk) ==
  /\ store' = [store EXCEPT ![k] = saveConversationHistory(variant, @, history, writeOk)]
  /\ call' = [fn |-> "save", key |-> k, ok |-> writeOk, out |-> <<>>,
              saved |-> IF writeOk
                        THEN [LastSaved EXCEPT ![k] = [some |-> TRUE, history |-> history]]
                        ELSE LastSaved]
  /\ UNCHANGED <<variant, keyConfigured, req, received, saves, delivered>>

\* loadConversationHistory(userId) runs to its return
Load(k, readOk) ==
  /\ call' = [fn |-> "load", key |-> k, ok |-> readOk,
              out |-> loadConversationHistory(variant, store[k], readOk),
              saved |-> LastSaved]
  /\ UNCHANGED <<variant, keyConfigured, store, req, received, saves, delivered>>

StoreNext ==
  \/ \E k \in Keys, history \in StoreHistories(variant), writeOk \in BOOLEAN :
       Save(k, history, writeOk)
  \/ \E k \in Keys : \E readOk \in ReadOutcomes(store[k]) : Load(k, readOk)

StoreSpec == StoreInit /\ [][StoreNext]_vars

(***************************************************************************)
(* splitMessage called on its own.                                         *)
(***************************************************************************)
\* the pieces the texts are made of: a letter, a space, the marker and a
\* newline character
SplitPieces == {<<"a">>, Space, Marker, Newline}

\* the texts of at most MaxTextPieces pieces
SplitTexts ==
  UNION {{StrJoin(p, <<>>) : p \in [1..n -> SplitPieces]} : n \in 0..MaxTextPieces}

\* the values of maxLines and maxCharsPerLine
SplitMaxLines == 1..3
SplitMaxChars == 2..3

SplitInit == Quiet([k \in Keys |-> NoFile])

\* splitMessage(text, maxLines, maxCharsPerLine) runs to its return
Split(text, maxLines, maxCharsPerLine) ==
  /\ call = NoCall
  /\ call' = [fn |-> "split", text |-> text, maxLines |-> maxLines,
              maxCharsPerLine |-> maxCharsPerLine,
              out |-> splitMessage(text, maxLines, maxCharsPerLine)]
  /\ UNCHANGED <<variant, keyConfigured, store, req, received, saves, delivered>>

SplitNext ==
  /\ call = NoCall
  /\ \E text \in SplitTexts, maxLines \in SplitMaxLines,
        maxCharsPerLine \in SplitMaxChars :
       Split(text, maxLines, maxCharsPerLine)

SplitSpec == SplitInit /\ [][SplitNext]_vars

(***************************************************************************)
(* The server with every awaited call returning: the read, the completion  *)
(* call, the send, the timer of the delay and the write each come back, in *)
(* each invocation, once they have been started.                           *)
(***************************************************************************)
\* a step in which an awaited call of some invocation returns
AwaitReturns ==
  \/ \E r \in Slots : LoadReturn(r)
  \/ \E r \in Slots, result \in CompletionResults : GenerateReturn(r, result)
  \/ \E r \in Slots, success \in BOOLEAN : SendReturn(r, success)
  \/ \E r \in Slots : DelayReturn(r)
  \/ \E r \in Slots : SaveReturn(r)

\* as long as some awaited call is outstanding, one of them returns
Fairness == WF_vars(AwaitReturns)

\* the events of this server: a text message, a stub notification, a
\* message without sender and an event of another kind
LiveEvents ==
  {ev \in Events :
     \/ /\ ev.kind = "upsert" /\ ~ev.fromMe /\ ev.sender = StringField(Sender1)
        /\ ev.message = "object" /\ ev.conversation = StringField(DirectText)
        /\ ev.ext = NoField
     \/ /\ ev.kind = "upsert" /\ ~ev.fromMe /\ ev.sender = NoField
        /\ ev.message = "absent" /\ ~ev.stub
     \/ ev.kind = "other"}

LiveInit == Quiet([k \in Keys |-> NoFile])

LiveNext ==
  \/ \E r \in Slots, ev \in LiveEvents : Receive(r, ev)
  \/ AwaitReturns

LiveSpec == LiveInit /\ [][LiveNext]_vars /\ Fairness

(***************************************************************************)
(* Vocabulary of the claims.                                               *)
(***************************************************************************)
\* the conversation that the file of key k holds
Conversation(k) == loadConversationHistory(variant, store[k], TRUE)

\* the invocations that have just answered
Answered == {r \in Slots : req[r].pc = "done"}

\* the positions of the steps of kind op in a step record
OpsOf(ops, op) == {n \in 1..Len(ops) : ops[n].op = op}

\* the event is of the 'new message' kind
IsNewMessage(ev) == ev.kind = "upsert"
\* the event's message has non-empty text in the direct or the extended field
CarriesText(ev) ==
  /\ ev.message = "object"
  /\ \/ (ev.conversation.st = "string" /\ ev.conversation.s # <<>>)
     \/ (ev.ext.st = "string" /\ ev.ext.s # <<>>)
\* the text of such an event: the direct field's when it is non-empty
TextOf(ev) ==
  IF ev.conversation.st = "string" /\ ev.conversation.s # <<>>
  THEN ev.conversation.s ELSE ev.ext.s
\* interpreting the event raises a TypeError before the handler answers: the
\* message is new and not self-sent and its sender is there and no string
\* (senderNumber.replace; the first variant answers a stub notification
\* before it gets there), or, in the second variant, its message content is
\* no object ('conversation' in msgContentObj)
Unreadable(v, ev) ==
  /\ IsNewMessage(ev) /\ ~ev.fromMe
  /\ \/ (ev.sender.st = "nonstring" /\ (v = 2 \/ ~ev.stub))
     \/ (v = 2 /\ ev.sender.st = "string" /\ ev.message = "primitive")

C2_AbsentSenderIsClientError ==
  \A r \in Answered :
    (IsNewMessage(req[r].ev) /\ ~req[r].ev.fromMe /\ req[r].ev.sender.st = "absent")
      => req[r].status = StatusBadRequest

(***************************************************************************)
(* C3                                                                      *)
(***************************************************************************)
\* C3 as stated: a 'new message' event that is not self-originated, has a
\* sender identifier, no stub type and non-empty text in either text field
\* runs the pipeline: one load and one generator call with that text.
C3_TextRunsPipeline ==
  \A r \in Answered :
    (/\ IsNewMessage(req[r].ev) /\ ~req[r].ev.fromMe
     /\ req[r].ev.sender.st = "string" /\ ~req[r].ev.stub
     /\ CarriesText(req[r].ev))
      => /\ Cardinality(OpsOf(req[r].ops, "load")) = 1
         /\ Cardinality(OpsOf(req[r].ops, "generate")) = 1
         /\ \A n \in OpsOf(req[r].ops, "generate") :
              req[r].ops[n].text = TextOf(req[r].ev)

(***************************************************************************)
(* C4                                                                      *)
(***************************************************************************)
\* the event is terminal by the classification rules 1, 2, 4 and 6: not a
\* new message, self-originated, or, the sender being there, a stub
\* notification or a message without extractable text
Terminal(ev) ==
  \/ ~IsNewMessage(ev)
  \/ ev.fromMe
  \/ (ev.sender.st # "absent" /\ (ev.stub \/ ~CarriesText(ev)))

C5_StepOrder ==
  \A r \in Slots :
    LET o == req[r].ops
    IN /\ \A n \in 1..Len(o) :
            /\ o[n].op = "load" <=> n = 1
            /\ o[n].op = "generate" <=> n = 2
            /\ o[n].op \in {"send", "delay"} => n > 2
            /\ o[n].op = "save" => (n = Len(o) /\ n > 2)
       /\ req[r].pc = "loading" => o = <<>>
       /\ req[r].pc = "generating" => Len(o) = 1
       /\ req[r].pc \in {"sending", "delaying", "saving"} =>
            (Len(o) >= 2 /\ OpsOf(o, "save") = {})
       /\ req[r].calls <= 1

\* C5 witness: an invocation has answered after a load, a generation, three
\* sends with two delays between them, and a save.
C5_Witness ==
  \E r \in Answered :
    /\ Len(req[r].ops) = 8
    /\ Cardinality(OpsOf(req[r].ops, "send")) = 3
    /\ req[r].ops[8].op = "save"

(***************************************************************************)
(* C6                                                                      *)
(***************************************************************************)
\* C6: the chunks whose send has been attempted are a prefix of the chunk
\* sequence, attempted in order and once each (the k-th attempt is chunk k),
\* and an attempt is made only after every earlier one returned success.
C6_SendsInOrder ==
  \A r \in Slots :
    LET o == req[r].ops
        sends == OpsOf(o, "send")
    IN /\ \A n \in sends :
            /\ o[n].idx = Cardinality({m \in sends : m <= n})
            /\ o[n].idx <= Len(req[r].chunks)
       /\ \A n, m \in sends : n < m => o[n].ok
       /\ req[r].pc = "sending" =>
            /\ req[r].i = Cardinality(sends) + 1
            /\ req[r].i <= Len(req[r].chunks)
            /\ \A n \in sends : o[n].ok

\* C6 witness: the third chunk is being sent after the first two succeeded.
C6_Witness ==
  \E r \in Slots :
    /\ req[r].pc = "sending" /\ req[r].i = 3
    /\ Cardinality(OpsOf(req[r].ops, "send")) = 2

(***************************************************************************)
(* C7                                                                      *)
(***************************************************************************)
\* C7: once a send has reported failure, no further send or delay happens in
\* that invocation, the chunks delivered are those sent before the failing
\* one, and the invocation still answers with success.
C7_StopAtFirstFailure ==
  \A r \in Slots :
    LET o == req[r].ops
    IN \A n \in OpsOf(o, "send") :
         ~o[n].ok =>
           /\ \A m \in n + 1..Len(o) : o[m].op \notin {"send", "delay"}
           /\ req[r].pc \notin {"sending", "delaying"}
           /\ Cardinality({m \in OpsOf(o, "send") : o[m].ok}) = o[n].idx - 1
           /\ req[r].pc = "done" => req[r].status = StatusOk

\* C7 witness: of three chunks the first was delivered, the send of the
\* second failed, the third was never attempted, and the invocation answered.
C7_Witness ==
  \E r \in Answered :
    /\ Len(req[r].chunks) = 3
    /\ \E n \in OpsOf(req[r].ops, "send") : req[r].ops[n].idx = 2 /\ ~req[r].ops[n].ok
    /\ Cardinality({m \in OpsOf(req[r].ops, "send") : req[r].ops[m].ok}) = 1
    /\ \A m \in OpsOf(req[r].ops, "send") : req[r].ops[m].idx # 3

(***************************************************************************)
(* C8                                                                      *)
(***************************************************************************)
\* the user turn and the model turn as the two variants write them
TurnPair(v, text, reply) ==
  IF v = 1
  THEN <<[role |-> "user", parts |-> <<[text |-> text]>>],
         [role |-> "model", parts |-> <<[text |-> reply]>>]>>
  ELSE <<[role |-> "user", parts |-> <<text>>],
         [role |-> "model", parts |-> <<reply>>]>>

\* C8: an invocation that got a non-empty reply performs exactly one save,
\* as its last step, whatever the sends did; when the write succeeds the
\* sender's file holds the loaded conversation, then the user turn, then the
\* model turn with the whole reply.
C8_OneSaveAfterDelivery ==
  \A r \in Answered :
    (req[r].ops # <<>> /\ req[r].reply # <<>>) =>
      LET o == req[r].ops
      IN /\ OpsOf(o, "save") = {Len(o)}
         /\ o[Len(o)].ok =>
              /\ store[SafeSenderId(req[r].ev.sender.s)].kind = "json"
              /\ Conversation(SafeSenderId(req[r].ev.sender.s)) =
                   req[r].history
                     \o TurnPair(variant, TextOf(req[r].ev), req[r].reply)

\* C8 witness: the very first send of a three-chunk reply failed, and the
\* conversation was saved all the same, the model turn holding the reply.
C8_Witness ==
  \E r \in Answered :
    /\ Len(req[r].chunks) = 3
    /\ OpsOf(req[r].ops, "send") # {}
    /\ \A n \in OpsOf(req[r].ops, "send") : ~req[r].ops[n].ok
    /\ req[r].ops[Len(req[r].ops)].op = "save" /\ req[r].ops[Len(req[r].ops)].ok
    /\ Len(Conversation(KeyOf(req[r]))) = 2

(***************************************************************************)
(* C9                                                                      *)
(***************************************************************************)
\* C9: a save by an invocation that loaded before another invocation's save
\* for the same key overwrites that save: the file then holds the saver's
\* loaded conversation and its own two turns only, fewer than two turns per
\* successful save.
C9_LaterSaveOverwrites ==
  \A r \in Answered :
    LET o == req[r].ops
        k == KeyOf(req[r])
    IN (/\ o # <<>> /\ o[Len(o)].op = "save" /\ o[Len(o)].ok
        /\ saves[k] > req[r].ver + 1)
         => /\ Conversation(k) =
                 req[r].history \o TurnPair(variant, req[r].text, req[r].reply)
            /\ Len(Conversation(k)) < 2 * saves[k]

\* C9 witness: two events of one user were processed with the completion
\* call awaited, both replies were sent in full and both saves succeeded,
\* and the file holds the two turns of the later saver only.
C9_Witness ==
  \E r \in Answered :
    LET k == KeyOf(req[r])
    IN /\ keyConfigured
       /\ req[r].ops # <<>> /\ req[r].ver = 0
       /\ saves[k] = 2 /\ delivered[k] = 2
       /\ Conversation(k) = TurnPair(variant, req[r].text, req[r].reply)

C11_FallbackAbsorbed ==
  /\ [](\A r \in Slots :
          LET q == req[r]
              o == q.ops
          IN (Len(o) >= 2 /\ (~keyConfigured \/ q.reply = FALLBACK_ERROR)) =>
               /\ ~keyConfigured => (q.reply = FALLBACK_NO_KEY /\ q.calls = 0)
               /\ q.chunks = <<q.reply>>
               /\ q.pc = "done" =>
                    /\ q.status = StatusOk
                    /\ Cardinality(OpsOf(o, "send")) = 1
                    /\ OpsOf(o, "save") = {Len(o)}
                    /\ o[Len(o)].ok =>
                         /\ store[KeyOf(q)].kind = "json"
                         /\ Conversation(KeyOf(q)) =
                              q.history \o TurnPair(variant, TextOf(q.ev), q.reply))
  /\ [][\A r \in Slots :
          (keyConfigured /\ GenerateReturn(r, Throws)) =>
            (req'[r].reply = FALLBACK_ERROR /\ req'[r].calls = 1
             /\ req'[r].pc = "sending")]_vars

\* C11 witness: without the key, an invocation has answered after one
\* successful send, and the file holds the user turn and the fallback string.
C11_Witness ==
  \E r \in Answered :
    /\ ~keyConfigured /\ req[r].calls = 0
    /\ req[r].history = <<>>
    /\ Cardinality({n \in OpsOf(req[r].ops, "send") : req[r].ops[n].ok}) = 1
    /\ store[KeyOf(req[r])].kind = "json"
    /\ Conversation(KeyOf(req[r])) = TurnPair(variant, req[r].text, FALLBACK_NO_KEY)

(***************************************************************************)
(* C12, C13                                                                *)
(***************************************************************************)
\* the fixed fallback strings
Fallbacks ==
  {FALLBACK_NO_KEY, FALLBACK_UNRECOGNIZED, FALLBACK_ERROR, FALLBACK_UNUSUAL,
   FALLBACK_EMPTY}
\* the shapes a variant knows, in the order in which it tries them
KnownShapes(v, result) ==
  IF v = 1 THEN <<result.nested, result.text, result.cand>>
  ELSE <<result.text, result.cand>>
\* the shape carries text: a non-empty string is at the end of its path
ShapeCarriesText(shape) == shape.st = "text" /\ shape.s # <<>>
\* the positions of the known shapes that carry text
TextShapes(v, result) ==
  {n \in 1..Len(KnownShapes(v, result)) :
     ShapeCarriesText(KnownShapes(v, result)[n])}

\* C12 as stated: getGeminiResponse returns a string whatever the completion
\* call does and makes that call at most once; when the call throws or no
\* known shape of its result carries text, the string returned is one of the
\* fixed fallback strings.
C12_AlwaysStringFallbackWhenNoText ==
  call.fn = "generate" =>
    /\ DOMAIN call.out = 1..Len(call.out)
    /\ call.calls <= 1
    /\ (keyConfigured /\ (call.result.kind = "throw"
                          \/ TextShapes(variant, call.result) = {}))
         => call.out \in Fallbacks

\* C13 as stated: when the key is configured and at least one known shape of
\* the result carries text, getGeminiResponse returns the trimmed text of
\* the first such shape in the priority order, whatever the shapes before it
\* hold.
C13_FirstShapeWithTextWins ==
  (/\ call.fn = "generate" /\ keyConfigured /\ call.result.kind = "result"
   /\ TextShapes(variant, call.result) # {})
    => LET shapes == KnownShapes(variant, call.result)
           first == CHOOSE n \in TextShapes(variant, call.result) :
                      \A m \in TextShapes(variant, call.result) : n <= m
       IN call.out = Trim(shapes[first].s)

(***************************************************************************)
(* C14                                                                     *)
(***************************************************************************)
\* C14: an invocation whose generated reply is the empty string answers with
\* success right after the generation: no chunk is sent, nothing is saved,
\* and the step that answers leaves every file as it was.
C14_EmptyReplySkipsSendAndSave ==
  /\ [](\A r \in Slots :
          (Len(req[r].ops) >= 2 /\ req[r].reply = <<>>) =>
            /\ req[r].pc = "done" /\ req[r].status = StatusOk
            /\ Len(req[r].ops) = 2
            /\ OpsOf(req[r].ops, "send") = {} /\ OpsOf(req[r].ops, "save") = {})
  /\ [][\A r \in Slots :
          (req'[r].pc = "done" /\ req'[r].ops # <<>> /\ req'[r].reply = <<>>)
            => store' = store]_vars

\* C14 witness: the completion call was made and its text trimmed to the
\* empty string; the invocation has answered with success.
C14_Witness ==
  \E r \in Answered :
    /\ req[r].calls = 1 /\ Len(req[r].ops) = 2
    /\ req[r].ops[2].op = "generate"
    /\ req[r].reply = <<>> /\ req[r].status = StatusOk

(***************************************************************************)
(* C15                                                                     *)
(***************************************************************************)
\* every turn of the conversation has the role of the user or of the model
WellFormed(history) ==
  \A n \in 1..Len(history) : history[n].role \in {"user", "model"}

\* C15 as stated: load returns the conversation most recently saved under
\* the key, exactly and in order, when a save has written the record (its
\* turns being well-formed), and the empty conversation when there is no
\* record or the record is malformed; it returns nothing else.
C15_LoadReturnsSavedOrEmpty ==
  call.fn = "load" =>
    LET last == call.saved[call.key]
    IN IF last.some
       THEN WellFormed(last.history) => call.out = last.history
       ELSE call.out = <<>>

\* C15 as amended: the same when the record can be read; when reading an
\* existing record fails, load returns the empty conversation.  Saved means
\* written: a save whose write failed leaves the record as it was.
C15_LoadReturnsSavedOrEmptyIfRead ==
  call.fn = "load" =>
    LET last == call.saved[call.key]
    IN /\ call.out \in {<<>>, last.history}
       /\ (last.some /\ call.ok /\ WellFormed(last.history))
            => call.out = last.history
       /\ (~last.some \/ ~call.ok) => call.out = <<>>

\* C15 witness: two pairs of turns whose texts hold a marker, a double quote
\* and a newline were saved, and the load returned them.
C15_Witness ==
  /\ call.fn = "load" /\ call.ok
  /\ call.saved[call.key].some
  /\ Len(call.out) = 4
  /\ call.out = call.saved[call.key].history
  /\ call.out[1] = Turn(variant, "user", <<"\"", "\n", "t">>)
  /\ call.out[2] = Turn(variant, "model", <<"a">> \o Marker \o <<"b">>)

(***************************************************************************)
(* C16                                                                     *)
(***************************************************************************)
\* C16: within one invocation every send after the first is preceded by
\* exactly one delay, which follows the successful send of the chunk before;
\* a delay is taken only after a successful send of a chunk that is not the
\* last and is followed by the send of the next chunk, so none follows the
\* final chunk or a failed send, and a reply of one chunk has no delay.
C16_OneDelayBetweenSends ==
  \A r \in Slots :
    LET o == req[r].ops
        n == Len(req[r].chunks)
    IN /\ \A p \in OpsOf(o, "send") :
            o[p].idx >= 2 =>
              /\ o[p - 1].op = "delay" /\ o[p - 1].idx = o[p].idx - 1
              /\ o[p - 2].op = "send" /\ o[p - 2].idx = o[p].idx - 1
       /\ \A p \in OpsOf(o, "delay") :
            /\ o[p - 1].op = "send" /\ o[p - 1].ok
            /\ o[p - 1].idx = o[p].idx /\ o[p].idx < n
            /\ p < Len(o) => o[p + 1].op = "send"
       /\ \A p \in OpsOf(o, "send") :
            (~o[p].ok \/ o[p].idx = n) =>
              /\ \A m \in p + 1..Len(o) : o[m].op # "delay"
              /\ req[r].pc # "delaying"
       /\ req[r].pc = "delaying" =>
            (o[Len(o)].op = "send" /\ o[Len(o)].ok /\ o[Len(o)].idx < n)
       /\ n = 1 => (OpsOf(o, "delay") = {} /\ req[r].pc # "delaying")

\* C16 witness: three chunks were sent with a delay after the first and
\* after the second, and the save came right after the third send.
C16_Witness ==
  \E r \in Answered :
    LET o == req[r].ops
    IN /\ Len(req[r].chunks) = 3 /\ Len(o) = 8
       /\ o[4].op = "delay" /\ o[6].op = "delay"
       /\ Cardinality(OpsOf(o, "delay")) = 2
       /\ o[7].op = "send" /\ o[7].ok /\ o[8].op = "save"

(***************************************************************************)
(* C17 .. C20                                                              *)
(***************************************************************************)
\* the text holds the line-break marker
HasMarker(text) == \E k \in 1..Len(text) : StartsAt(text, Marker, k)
\* the lines of a chunk: what is between its newline characters
LinesOf(chunk) == StrSplit(chunk, Newline)
\* the text is one word: it has no marker and no white space
OneWord(text) ==
  /\ text # <<>> /\ ~HasMarker(text)
  /\ \A k \in 1..Len(text) : text[k] \notin WhiteSpace

\* C17 as stated: splitMessage of the empty string returns no chunk, and of
\* a text without marker that is no longer than maxCharsPerLine the one
\* chunk that is the text.
C17_EmptyAndShort ==
  call.fn = "split" =>
    /\ call.text = <<>> => call.out = <<>>
    /\ (call.text # <<>> /\ ~HasMarker(call.text)
        /\ Len(call.text) <= call.maxCharsPerLine) => call.out = <<call.text>>

\* C18 as stated: no chunk that splitMessage returns is the empty string.
C18_NoEmptyChunk ==
  call.fn = "split" => \A n \in 1..Len(call.out) : call.out[n] # <<>>

\* C19 as stated: every chunk that splitMessage returns has at least one
\* line and at most maxLines lines, and every chunk but the last has exactly
\* maxLines; two paragraphs of two lines each give, with maxLines = 3, a
\* chunk of three lines and a chunk of one.
C19_ChunkLineCount ==
  call.fn = "split" =>
    /\ \A n \in 1..Len(call.out) :
         /\ Len(LinesOf(call.out[n])) \in 1..call.maxLines
         /\ n < Len(call.out) => Len(LinesOf(call.out[n])) = call.maxLines
    /\ (/\ call.text = <<"a", " ", "a">> \o Marker \o <<"a", " ", "a">>
        /\ call.maxLines = 3 /\ call.maxCharsPerLine = 2)
         => call.out = <<<<"a", "\n", "a", "\n", "a">>, <<"a">>>>

\* C20 as stated: a text that is one word longer than maxCharsPerLine comes
\* back as one chunk of one line, the word itself, with no empty line in
\* front of it.
C20_LongWordIsOneLine ==
  (/\ call.fn = "split" /\ OneWord(call.text)
   /\ Len(call.text) > call.maxCharsPerLine)
    => call.out = <<call.text>>

(***************************************************************************)
(* C21                                                                     *)
(***************************************************************************)
\* the words of a line: what is between its spaces
WordsOf(line) == StrSplit(line, Space)

\* C21: a line of a chunk that splitMessage returns is longer than
\* maxCharsPerLine only if it is a single word, itself longer than
\* maxCharsPerLine; every line of more than one word is at most
\* maxCharsPerLine long.
C21_LineLength ==
  call.fn = "split" =>
    \A n \in 1..Len(call.out) :
      \A m \in 1..Len(LinesOf(call.out[n])) :
        LET line == LinesOf(call.out[n])[m]
        IN /\ Len(WordsOf(line)) > 1 => Len(line) <= call.maxCharsPerLine
           /\ Len(line) > call.maxCharsPerLine => WordsOf(line) = <<line>>

\* C21 witness: a paragraph longer than maxCharsPerLine was wrapped, and one
\* of the lines made of it has two words and is exactly maxCharsPerLine long.
C21_Witness ==
  /\ call.fn = "split" /\ ~HasMarker(call.text)
  /\ Len(call.text) > call.maxCharsPerLine
  /\ \E n \in 1..Len(call.out) :
       \E m \in 1..Len(LinesOf(call.out[n])) :
         /\ LinesOf(call.out[n])[m] = <<"a", " ", "a">>
         /\ call.maxCharsPerLine = Len(LinesOf(call.out[n])[m])

(***************************************************************************)
(* C22                                                                     *)
(***************************************************************************)
\* the lines of all chunks, read in order
RECURSIVE LinesOfAll(_)
LinesOfAll(chunks) ==
  IF Len(chunks) = 0 THEN <<>>
  ELSE LinesOf(Head(chunks)) \o LinesOfAll(Tail(chunks))

\* the lines that the wrapping step makes of the paragraphs of the text, in
\* input order: the lines emitted when no chunk is ever closed
WrappedLines(text, maxCharsPerLine) ==
  SplitParagraphs(StrSplit(text, Marker),
                  [chunks |-> <<>>, currentChunk |-> <<>>, currentLineCount |-> 0],
                  Len(text) + 2, maxCharsPerLine).currentChunk

\* C22 as stated: the lines of the returned chunks, read in order, are
\* exactly the lines of the wrapping step, none dropped, doubled or moved; a
\* text that is one paragraph no longer than maxCharsPerLine gives the one
\* line that is the paragraph.
C22_LinesPreserved ==
  call.fn = "split" =>
    /\ LinesOfAll(call.out) = WrappedLines(call.text, call.maxCharsPerLine)
    /\ (~HasMarker(call.text) /\ Len(call.text) <= call.maxCharsPerLine)
         => LinesOfAll(call.out) = <<call.text>>

(***************************************************************************)
(* C23                                                                     *)
(***************************************************************************)
\* the greedy rule: a word joins the current line exactly when the line,
\* one space and the word are together at most maxCharsPerLine long, and
\* starts a new line otherwise; the first word starts the first line
RECURSIVE GreedyLines(_, _, _)
GreedyLines(words, currentLine, maxCharsPerLine) ==
  IF Len(words) = 0 THEN <<currentLine>>
  ELSE IF Len(currentLine \o Space \o Head(words)) <= maxCharsPerLine
       THEN GreedyLines(Tail(words), currentLine \o Space \o Head(words),
                        maxCharsPerLine)
       ELSE <<currentLine>> \o GreedyLines(Tail(words), Head(words), maxCharsPerLine)

\* the text is one paragraph of words, each with at least one letter and at
\* most maxCharsPerLine long, and has no newline character
PlainWords(text, maxCharsPerLine) ==
  /\ text # <<>> /\ ~HasMarker(text)
  /\ \A k \in 1..Len(text) : text[k] # "\n"
  /\ \A n \in 1..Len(WordsOf(text)) :
       Len(WordsOf(text)[n]) \in 1..maxCharsPerLine

\* C23 as stated: a paragraph longer than maxCharsPerLine is wrapped by the
\* greedy rule, the first line like the later ones, so that leading words
\* whose joined length is exactly maxCharsPerLine stay on one line.
C23_GreedyWrap ==
  (/\ call.fn = "split"
   /\ PlainWords(call.text, call.maxCharsPerLine)
   /\ Len(call.text) > call.maxCharsPerLine)
    => LinesOfAll(call.out) =
         GreedyLines(Tail(WordsOf(call.text)), Head(WordsOf(call.text)),
                     call.maxCharsPerLine)

(***************************************************************************)
(* C24                                                                     *)
(***************************************************************************)
\* the roles alternate user, model, user, model, and the last is a model's
Alternates(history) ==
  /\ Len(history) % 2 = 0
  /\ \A n \in 1..Len(history) :
       history[n].role = (IF n % 2 = 1 THEN "user" ELSE "model")

\* the invocation is past its load and has not answered
PastLoad(q) == q.pc \in {"generating", "sending", "delaying", "saving"}

\* C24: in every reachable state, whatever the interleaving of the
\* invocations, every conversation on file has even length and alternating
\* roles, and came about by appending one user turn and one model turn to a
\* conversation that was on file under that key earlier, or to the empty
\* one: a step changes a file only by writing the conversation that the
\* answering invocation loaded, followed by its two turns; what an
\* invocation loads is what is on file at the load, or the empty
\* conversation; and it keeps what it loaded until it answers.
C24_StoredConversations ==
  /\ [](\A k \in Keys : store[k].kind = "json" => Alternates(Conversation(k)))
  /\ [][/\ \A k \in Keys :
             store'[k] # store[k] =>
               /\ store'[k].kind = "json"
               /\ \E r \in Slots :
                    /\ req'[r].pc = "done" /\ KeyOf(req'[r]) = k
                    /\ loadConversationHistory(variant, store'[k], TRUE) =
                         req'[r].history
                           \o TurnPair(variant, req'[r].text, req'[r].reply)
        /\ \A r \in Slots :
             /\ (req'[r].pc = "generating" /\ req[r].pc # "generating") =>
                  req'[r].history \in {<<>>, Conversation(KeyOf(req'[r]))}
             /\ PastLoad(req[r]) => req'[r].history = req[r].history]_vars

\* C24 witness: the file of a user holds four turns, user, model, user,
\* model, the first two being what the answering invocation had loaded.
C24_Witness ==
  \E r \in Answered :
    LET c == Conversation(KeyOf(req[r]))
    IN /\ req[r].ops # <<>> /\ Len(c) = 4
       /\ <<c[1].role, c[2].role, c[3].role, c[4].role>> =
            <<"user", "model", "user", "model">>
       /\ <<c[1], c[2]>> = req[r].history

(***************************************************************************)
(* C25                                                                     *)
(***************************************************************************)
\* the invocation found a malformed record at its load
LoadedMalformed(q) == q.ops # <<>> /\ q.ops[1].op = "load" /\ q.ops[1].idx = 1

\* C25 as stated: an invocation that found a malformed record loaded the
\* empty conversation; once it has answered (a reply having been generated)
\* the answer is success and the record is well-formed and holds exactly
\* two turns, the user turn and the model turn of its message.
C25_MalformedOverwritten ==
  \A r \in Slots :
    LoadedMalformed(req[r]) =>
      /\ req[r].history = <<>>
      /\ (req[r].pc = "done" /\ req[r].reply # <<>>) =>
           /\ req[r].status = StatusOk
           /\ store[KeyOf(req[r])].kind = "json"
           /\ Conversation(KeyOf(req[r])) =
                TurnPair(variant, req[r].text, req[r].reply)

\* C25 as amended: the same provided the write of the save succeeds; when
\* it fails the answer is success all the same and the record is left as it
\* was.
C25_MalformedOverwrittenIfWritten ==
  /\ [](\A r \in Slots :
          LoadedMalformed(req[r]) =>
            /\ req[r].history = <<>>
            /\ (req[r].pc = "done" /\ req[r].reply # <<>>) =>
                 /\ req[r].status = StatusOk
                 /\ req[r].ops[Len(req[r].ops)].op = "save"
                 /\ req[r].ops[Len(req[r].ops)].ok =>
                      /\ store[KeyOf(req[r])].kind = "json"
                      /\ WellFormed(Conversation(KeyOf(req[r])))
                      /\ Conversation(KeyOf(req[r])) =
                           TurnPair(variant, req[r].text, req[r].reply))
  /\ [][\A r \in Slots :
          (/\ req'[r].pc = "done" /\ req'[r].ops # <<>> /\ req'[r].reply # <<>>
           /\ ~req'[r].ops[Len(req'[r].ops)].ok)
            => store' = store]_vars

\* C25 witness: the record was malformed and could be read; the reply was
\* delivered, the save succeeded, and the file holds the two turns.
C25_Witness ==
  \E r \in Answered :
    /\ LoadedMalformed(req[r]) /\ req[r].ops[1].ok
    /\ SentInFull(req[r])
    /\ req[r].ops[Len(req[r].ops)].op = "save" /\ req[r].ops[Len(req[r].ops)].ok
    /\ store[KeyOf(req[r])] =
         JsonFile(variant, TurnPair(variant, req[r].text, req[r].reply))

(***************************************************************************)
(* C26                                                                     *)
(***************************************************************************)
\* the invocation has been received and has not answered
Pending(q) == q.pc \in {"loading", "generating", "sending", "delaying", "saving"}

\* C26: when every awaited call returns, every invocation that is pending
\* answers in the end, and every event is pending or answered right after
\* it was received; an answer is given once (the record of an answered
\* invocation is gone at the next step unless a new event took its slot);
\* no more sends are attempted than there are chunks; and an invocation
\* that delivered a reply answers only with the save as its last step, all
\* its sends before it.
C26_EveryEventAnswered ==
  /\ [](\A r \in Slots :
          LET o == req[r].ops
          IN /\ Cardinality(OpsOf(o, "send")) <= Len(req[r].chunks)
             /\ req[r].pc = "done" => req[r].status # 0
             /\ (req[r].pc = "done" /\ OpsOf(o, "send") # {}) =>
                  /\ o[Len(o)].op = "save"
                  /\ \A n \in OpsOf(o, "send") : n < Len(o))
  /\ [][/\ received' = received + 1 =>
             \E r \in Slots : req[r].pc \in {"idle", "done"}
                              /\ (req'[r].pc = "done" \/ Pending(req'[r]))
        /\ \A r \in Slots :
             req[r].pc = "done" =>
               (req'[r].pc # "done" \/ received' = received + 1)]_vars
  /\ \A r \in Slots : Pending(req[r]) ~> (req[r].pc = "done")

\* C26 witness: an invocation has answered after it sent all three chunks of
\* its reply, while another one is still waiting for its completion call.
C26_Witness ==
  \E r \in Answered :
    /\ Cardinality(OpsOf(req[r].ops, "send")) = 3 /\ SentInFull(req[r])
    /\ req[r].status = StatusOk
    /\ \E r2 \in Slots : req[r2].pc = "generating"

=============================================================================
